---- MODULE Spec2Model ----
(***************************************************************************)
(* Model of email_attachments_downloader: app/mails.py (credential loader, *)
(* message finder, attachment saver) and app/app.py (entry-point loop).    *)
(*                                                                         *)
(* Python strings are modelled as sequences of one-character strings, so   *)
(* that split, strip, lower and endswith are computed as Python computes   *)
(* them.                                                                   *)
(***************************************************************************)
EXTENDS Integers, Sequences, FiniteSets, TLC

VARIABLES
    pc,             \* position of the running routine
    error,          \* name of the exception that left the routine, or NoError
    \* ---- _get_credentials
    acc_name,       \* argument
    cred_file,      \* the file at cred_path: [exists, lines]
    lines,          \* local: stream.readlines()
    li,             \* local: number of lines the for loop has consumed
    params,         \* local: the params dict
    key,            \* local: NoKey until a recognized label binds it
    creds,          \* returned values: <<>> or <<the OAuth2Credentials fields>>
    \* ---- fetch_messages
    from_date, search_subfolders, email_from, clock,
    start, end,     \* locals, Unbound until line 195-196 binds them
    folders,        \* local: "walk" or "all"
    query,          \* filter queries handed to the remote store: <<>> or <<q>>
    emails,         \* returned values: <<>> or <<the message list>>
    \* ---- download_attachments
    attachments, dst_folder, ext, overwrite,
    dir_exists,     \* exists(dst_folder) in the filesystem
    fs,             \* filesystem: path -> [kind, content]
    fs0,            \* the filesystem at call time (history, for the claims)
    ai,             \* number of attachments the for loop has consumed
    file_paths,     \* local: result list
    log,            \* history: what happened to each attachment looked at
    \* ---- app.py main loop
    messages, mi, calls, outcomes

vars == <<pc, error, acc_name, cred_file, lines, li, params, key, creds,
          from_date, search_subfolders, email_from, clock, start, end,
          folders, query, emails,
          attachments, dst_folder, ext, overwrite, dir_exists, fs, fs0, ai,
          file_paths, log, messages, mi, calls, outcomes>>

credVars  == <<acc_name, cred_file, lines, li, params, key, creds>>
fetchVars == <<from_date, search_subfolders, email_from, clock, start, end,
               folders, query, emails>>
dlVars    == <<attachments, dst_folder, ext, overwrite, dir_exists, fs, fs0,
               ai, file_paths, log>>
mainVars  == <<messages, mi, calls, outcomes>>

-----------------------------------------------------------------------------
(* Bounds *)
MaxLines == 4
MaxAtts  == 2
MaxMsgs  == 2

-----------------------------------------------------------------------------
(* Python values *)

\* None and an unbound local are one-element tuples holding a multi-character
\* string: no character sequence and no timestamp equals them.
None     == <<"None">>
Unbound  == <<"Unbound">>
NoKey    == "unbound"
NoError  == "NoError"

Whitespace == {" ", "\n", "\t"}

\* str.lower() on the letters the model uses
LowerChar(c) ==
    CASE c = "A" -> "a" [] c = "B" -> "b" [] c = "C" -> "c" [] c = "D" -> "d"
      [] c = "F" -> "f" [] c = "I" -> "i" [] c = "P" -> "p" [] c = "R" -> "r"
      [] c = "S" -> "s" [] c = "T" -> "t" [] OTHER -> c

Lower(s) == [i \in 1..Len(s) |-> LowerChar(s[i])]

\* str.endswith
EndsWith(s, suffix) ==
    /\ Len(suffix) <= Len(s)
    /\ SubSeq(s, Len(s) - Len(suffix) + 1, Len(s)) = suffix

\* str.strip(): drop leading and trailing whitespace
RECURSIVE LStrip(_)
LStrip(s) == IF s # <<>> /\ Head(s) \in Whitespace THEN LStrip(Tail(s)) ELSE s

RECURSIVE RStrip(_)
RStrip(s) ==
    IF s # <<>> /\ s[Len(s)] \in Whitespace
    THEN RStrip(SubSeq(s, 1, Len(s) - 1)) ELSE s

Strip(s) == RStrip(LStrip(s))

\* ":" in line
HasColon(s) == \E i \in 1..Len(s) : s[i] = ":"

\* str.split(":"): the list of all the segments between colons
RECURSIVE SplitAcc(_, _, _)
SplitAcc(s, cur, acc) ==
    IF s = <<>> THEN Append(acc, cur)
    ELSE IF Head(s) = ":" THEN SplitAcc(Tail(s), <<>>, Append(acc, cur))
    ELSE SplitAcc(Tail(s), Append(cur, Head(s)), acc)

Split(s) == SplitAcc(s, <<>>, <<>>)

-----------------------------------------------------------------------------
(* _get_credentials (mails.py 66-132) *)

ClientIdLabel     == <<"C", "l", "i", "e", "n", "t", " ", "I", "D">>
ClientSecretLabel == <<"C", "l", "i", "e", "n", "t", " ", "S", "e", "c", "r", "e", "t">>
TenantIdLabel     == <<"T", "e", "n", "a", "n", "t", " ", "I", "D">>

\* The lines a credentials file of the model is made of, as readlines()
\* returns them (newline kept).
LineKinds ==
    { ClientIdLabel     \o <<":", " ", "a", "\n">>,        \* Client ID: a
      ClientSecretLabel \o <<":", " ", "s", "\n">>,        \* Client Secret: s
      TenantIdLabel     \o <<":", " ", "t", "\n">>,        \* Tenant ID: t
      ClientIdLabel     \o <<":", "\n">>,                  \* Client ID:
      TenantIdLabel     \o <<":", " ", "t", ":", "b", "\n">>,  \* Tenant ID: t:b
      <<"F", "o", "o", ":", " ", "b", "\n">>,              \* Foo: b
      <<"#", "\n">> }                                      \* a line without a colon

RECURSIVE SeqsUpTo(_, _)
SeqsUpTo(S, n) ==
    IF n = 0 THEN { <<>> }
    ELSE LET shorter == SeqsUpTo(S, n - 1)
         IN  shorter \cup { Append(q, x) : q \in shorter, x \in S }

AccNames == { <<"R", "@", "x">>, <<"r", "@", "x">> }

\* params = dict(client_id = None, ...), lines 89-94
InitParams(acc) ==
    [client_id |-> None, client_secret |-> None, tenant_id |-> None,
     identity |-> acc]

\* One iteration of the for loop, lines 96-112: the dict, the binding of `key`
\* and the exception the iteration ends with.
ParseLine(p, k, line) ==
    IF ~HasColon(line) THEN [params |-> p, key |-> k, err |-> NoError]
    ELSE
      LET tokens      == Split(line)
          param_name  == Strip(tokens[1])
          param_value == Strip(tokens[2])
          k2 == IF param_name = ClientIdLabel THEN "client_id"
                ELSE IF param_name = ClientSecretLabel THEN "client_secret"
                ELSE IF param_name = TenantIdLabel THEN "tenant_id"
                ELSE k
      IN  IF k2 = NoKey
          THEN [params |-> p, key |-> k2, err |-> "UnboundLocalError"]
          ELSE [params |-> [p EXCEPT ![k2] = param_value], key |-> k2,
                err |-> NoError]

\* verify loaded parameters, lines 114-122
VerifyParams(p) ==
    IF p.client_id = None THEN "ValueError: client_id"
    ELSE IF p.client_secret = None THEN "ValueError: client_secret"
    ELSE IF p.tenant_id = None THEN "ValueError: tenant_id"
    ELSE NoError

\* lines 83-94
CredOpen ==
    /\ pc = "cred_start"
    /\ IF ~cred_file.exists
       THEN /\ error' = "FileNotFoundError"
            /\ pc' = "cred_done"
            /\ UNCHANGED <<lines, params>>
       ELSE /\ lines' = cred_file.lines
            /\ params' = InitParams(acc_name)
            /\ pc' = "cred_scan"
            /\ UNCHANGED error
    /\ UNCHANGED <<acc_name, cred_file, li, key, creds>>
    /\ UNCHANGED <<fetchVars, dlVars, mainVars>>

\* lines 96-112, one line of the file
CredScanLine ==
    /\ pc = "cred_scan"
    /\ li < Len(lines)
    /\ LET r == ParseLine(params, key, lines[li + 1])
       IN  /\ params' = r.params
           /\ key' = r.key
           /\ error' = r.err
           /\ pc' = IF r.err = NoError THEN "cred_scan" ELSE "cred_done"
    /\ li' = li + 1
    /\ UNCHANGED <<acc_name, cred_file, lines, creds>>
    /\ UNCHANGED <<fetchVars, dlVars, mainVars>>

\* lines 114-132
CredVerify ==
    /\ pc = "cred_scan"
    /\ li = Len(lines)
    /\ error' = VerifyParams(params)
    /\ creds' = IF VerifyParams(params) = NoError THEN <<params>> ELSE <<>>
    /\ pc' = "cred_done"
    /\ UNCHANGED <<acc_name, cred_file, lines, li, params, key>>
    /\ UNCHANGED <<fetchVars, dlVars, mainVars>>

\* The whole call as a function of the file, folding ParseLine over the lines.
RECURSIVE ScanFrom(_, _, _)
ScanFrom(p, k, ls) ==
    IF ls = <<>> THEN [params |-> p, err |-> NoError]
    ELSE LET r == ParseLine(p, k, Head(ls))
         IN  IF r.err # NoError THEN [params |-> r.params, err |-> r.err]
             ELSE ScanFrom(r.params, r.key, Tail(ls))

GetCredentials(acc, file) ==
    IF ~file.exists THEN [err |-> "FileNotFoundError", creds |-> <<>>]
    ELSE LET r == ScanFrom(InitParams(acc), NoKey, file.lines)
             e == IF r.err # NoError THEN r.err ELSE VerifyParams(r.params)
         IN  [err |-> e, creds |-> IF e = NoError THEN <<r.params>> ELSE <<>>]

CredFiles ==
    { [exists |-> FALSE, lines |-> <<>>] } \cup
    { [exists |-> TRUE, lines |-> ls] : ls \in SeqsUpTo(LineKinds, MaxLines) }

\* Variables of the other routines, while one routine runs
IdleCred ==
    /\ acc_name = <<>> /\ cred_file = [exists |-> FALSE, lines |-> <<>>]
    /\ lines = <<>> /\ li = 0 /\ params = InitParams(<<>>) /\ key = NoKey
    /\ creds = <<>>

InitCred ==
    /\ pc = "cred_start"
    /\ error = NoError
    /\ acc_name \in AccNames
    /\ cred_file \in CredFiles
    /\ lines = <<>> /\ li = 0 /\ params = InitParams(acc_name) /\ key = NoKey
    /\ creds = <<>>

NextCred == CredOpen \/ CredScanLine \/ CredVerify

-----------------------------------------------------------------------------
(* download_attachments (mails.py 212-264) *)

Sep == "/"

\* os.path.join(dst, name)
Join(dst, name) ==
    IF name # <<>> /\ Head(name) = Sep THEN name
    ELSE IF dst = <<>> \/ dst[Len(dst)] = Sep THEN dst \o name
    ELSE dst \o <<Sep>> \o name

AttNames ==
    { <<"a", ".", "P", "D", "F">>,          \* a.PDF
      <<"b", ".", "d", "o", "c", "x">>,     \* b.docx
      <<"c", ".", "p", "d", "f">> }         \* c.pdf

\* att.content, and the bytes of a file that is there before the call
AttContents == {"b1", "b2"}
OldContent  == "old"

Atts == [name : AttNames, content : AttContents]

DstFolder == <<"d">>

Exts == { None, <<".", "p", "d", "f">>, <<".", "P", "D", "F">> }

Paths == { Join(DstFolder, n) : n \in AttNames }

Absent     == [kind |-> "none", content |-> OldContent]
Directory  == [kind |-> "dir",  content |-> OldContent]
File(b)    == [kind |-> "file", content |-> b]

\* os.path.isfile
IsFile(fsys, path) == fsys[path].kind = "file"

\* Faulty variant: the destination check is dropped
FolderMissing_Never(dexists) == FALSE

\* line 236: the destination check
FolderMissing(dexists) == ~dexists

\* line 245: the extension filter, on the joined path
PassesFilter(file_path, e) ==
    e = None \/ EndsWith(Lower(file_path), e)

\* Faulty variant: an existing file is kept whatever overwrite says
SkipExisting_IgnoresOverwrite(fsys, file_path, ow) == IsFile(fsys, file_path)

\* lines 248-252: an existing file is kept unless overwrite is set
SkipExisting(fsys, file_path, ow) == IsFile(fsys, file_path) /\ ~ow

\* lines 256-257: open(file_path, 'wb') and write(att.content). open() raises
\* when the folder is missing or the path is a directory; otherwise the file
\* is created or truncated and holds exactly the bytes written.
OpenWrite(fsys, dexists, file_path, bytes) ==
    IF ~dexists THEN [fs |-> fsys, err |-> "FileNotFoundError"]
    ELSE IF fsys[file_path].kind = "dir" THEN [fs |-> fsys, err |-> "OSError"]
    ELSE [fs |-> [fsys EXCEPT ![file_path] = File(bytes)], err |-> NoError]

\* Faulty variant: a path already in the result is not reported again
AppendPath_Dedup(paths, file_path) ==
    IF \E i \in 1..Len(paths) : paths[i] = file_path THEN paths
    ELSE Append(paths, file_path)

\* line 262
AppendPath(paths, file_path) == Append(paths, file_path)

\* One iteration of the for loop, lines 241-262.
SaveOne(fsys, dexists, paths, att, dst, e, ow) ==
    LET file_path == Join(dst, att.name)
        w == OpenWrite(fsys, dexists, file_path, att.content)
    IN  IF ~PassesFilter(file_path, e)
        THEN [fs |-> fsys, file_paths |-> paths, err |-> NoError,
              event |-> "filtered"]
        ELSE IF SkipExisting(fsys, file_path, ow)
        THEN [fs |-> fsys, file_paths |-> paths, err |-> NoError,
              event |-> "skipped"]
        ELSE IF w.err # NoError
        THEN [fs |-> w.fs, file_paths |-> paths, err |-> w.err,
              event |-> "failed"]
        ELSE IF ~IsFile(w.fs, file_path)
        THEN [fs |-> w.fs, file_paths |-> paths, err |-> "FileNotFoundError",
              event |-> "failed"]
        ELSE [fs |-> w.fs, file_paths |-> AppendPath(paths, file_path),
              err |-> NoError, event |-> "written"]

\* lines 236-239
DlCheckFolder ==
    /\ pc = "dl_start"
    /\ IF FolderMissing(dir_exists)
       THEN /\ error' = "FolderNotFoundError"
            /\ pc' = "dl_done"
            /\ UNCHANGED file_paths
       ELSE /\ pc' = "dl_loop"
            /\ file_paths' = <<>>
            /\ UNCHANGED error
    /\ UNCHANGED <<attachments, dst_folder, ext, overwrite, dir_exists, fs,
                   fs0, ai, log>>
    /\ UNCHANGED <<credVars, fetchVars, mainVars>>

\* lines 241-262, one attachment
DlAttachment ==
    /\ pc = "dl_loop"
    /\ ai < Len(attachments)
    /\ LET att == attachments[ai + 1]
           r   == SaveOne(fs, dir_exists, file_paths, att, dst_folder, ext,
                          overwrite)
       IN  /\ fs' = r.fs
           /\ file_paths' = r.file_paths
           /\ error' = r.err
           /\ pc' = IF r.err = NoError THEN "dl_loop" ELSE "dl_done"
           /\ log' = Append(log, [name |-> att.name, content |-> att.content,
                                  existed |-> IsFile(fs, Join(dst_folder, att.name)),
                                  event |-> r.event])
    /\ ai' = ai + 1
    /\ UNCHANGED <<attachments, dst_folder, ext, overwrite, dir_exists, fs0>>
    /\ UNCHANGED <<credVars, fetchVars, mainVars>>

\* line 264
DlReturn ==
    /\ pc = "dl_loop"
    /\ ai = Len(attachments)
    /\ pc' = "dl_done"
    /\ UNCHANGED <<error, dlVars, credVars, fetchVars, mainVars>>

\* The whole call as a function of its arguments and the filesystem.
RECURSIVE SaveFrom(_, _, _, _, _, _, _)
SaveFrom(fsys, dexists, paths, atts, dst, e, ow) ==
    IF atts = <<>> THEN [fs |-> fsys, file_paths |-> paths, err |-> NoError]
    ELSE LET r == SaveOne(fsys, dexists, paths, Head(atts), dst, e, ow)
         IN  IF r.err # NoError
             THEN [fs |-> r.fs, file_paths |-> r.file_paths, err |-> r.err]
             ELSE SaveFrom(r.fs, dexists, r.file_paths, Tail(atts), dst, e, ow)

DownloadAttachments(fsys, dexists, atts, dst, e, ow) ==
    IF FolderMissing(dexists)
    THEN [fs |-> fsys, file_paths |-> <<>>, err |-> "FolderNotFoundError"]
    ELSE SaveFrom(fsys, dexists, <<>>, atts, dst, e, ow)

\* The filesystems the model starts from: the folder missing (and so nothing
\* in it), or present with any mix of nothing, a file or a directory at each
\* path.
FileSystems(dexists) ==
    IF dexists THEN [Paths -> {Absent, Directory, File(OldContent)}]
    ELSE { [p \in Paths |-> Absent] }

IdleDl ==
    /\ attachments = <<>> /\ dst_folder = DstFolder /\ ext = None
    /\ overwrite = FALSE /\ dir_exists = FALSE
    /\ fs = [p \in Paths |-> Absent] /\ fs0 = fs
    /\ ai = 0 /\ file_paths = <<>> /\ log = <<>>

InitDl ==
    /\ pc = "dl_start"
    /\ error = NoError
    /\ attachments \in SeqsUpTo(Atts, MaxAtts)
    /\ dst_folder = DstFolder
    /\ ext \in Exts
    /\ overwrite \in BOOLEAN
    /\ dir_exists \in BOOLEAN
    /\ fs \in FileSystems(dir_exists)
    /\ fs0 = fs
    /\ ai = 0 /\ file_paths = <<>> /\ log = <<>>

NextDl == DlCheckFolder \/ DlAttachment \/ DlReturn

-----------------------------------------------------------------------------
(* fetch_messages (mails.py 174-210) *)

MaxTime == 2

Instants == 0..MaxTime

\* A timestamp is <<instant, zone>>. datetime values of the caller and
\* datetime.now() are in the zone "local"; acc.default_timezone is "mailbox".
Naive(t) == <<t, "local">>

\* EWSDateTime.from_datetime(d).astimezone(timezone): the same instant,
\* expressed in the given zone
AsTimezone(d, zone) == <<d[1], zone>>

DefaultTimezone == "mailbox"

Senders == { <<"o", "@", "x">>, <<"p", "@", "x">> }

\* The remote mailbox: messages of the inbox and of one subfolder
Mailbox ==
    << [sender |-> <<"o", "@", "x">>, received |-> 0, sub |-> FALSE],
       [sender |-> <<"p", "@", "x">>, received |-> 1, sub |-> FALSE],
       [sender |-> <<"o", "@", "x">>, received |-> 1, sub |-> TRUE],
       [sender |-> <<"o", "@", "x">>, received |-> 2, sub |-> FALSE] >>

\* Faulty variant: without from_date the range starts at the earliest instant
BindRange_OpenStart(fd, now) ==
    [start |-> IF fd # None THEN AsTimezone(fd, DefaultTimezone)
               ELSE AsTimezone(Naive(0), DefaultTimezone),
     end   |-> AsTimezone(now, DefaultTimezone)]

\* lines 193-196: start and end are bound only when from_date is given
BindRange(fd, now) ==
    IF fd # None
    THEN [start |-> AsTimezone(fd, DefaultTimezone),
          end   |-> AsTimezone(now, DefaultTimezone)]
    ELSE [start |-> Unbound, end |-> Unbound]

\* lines 198-201
FolderScope(sub) == IF sub THEN "walk" ELSE "all"

\* lines 203-208: the arguments of filter() are evaluated first; reading an
\* unbound local raises UnboundLocalError before filter() is called
FilterArgs(st, en, sender) ==
    IF st = Unbound \/ en = Unbound
    THEN [err |-> "UnboundLocalError", q |-> <<>>]
    ELSE [err |-> NoError,
          q |-> <<[range |-> <<st, en>>, sender |-> sender]>>]

\* What the remote store answers to a query on a folder scope
Answer(scope, q) ==
    LET Match(m) == /\ (scope = "walk" \/ ~m.sub)
                    /\ q.range[1][1] <= m.received
                    /\ m.received <= q.range[2][1]
                    /\ m.sender = q.sender
    IN  SelectSeq(Mailbox, Match)

FetchBindRange ==
    /\ pc = "fetch_start"
    /\ start' = BindRange(from_date, clock).start
    /\ end' = BindRange(from_date, clock).end
    /\ pc' = "fetch_folders"
    /\ UNCHANGED <<error, from_date, search_subfolders, email_from, clock,
                   folders, query, emails>>
    /\ UNCHANGED <<credVars, dlVars, mainVars>>

FetchFolders ==
    /\ pc = "fetch_folders"
    /\ folders' = FolderScope(search_subfolders)
    /\ pc' = "fetch_filter"
    /\ UNCHANGED <<error, from_date, search_subfolders, email_from, clock,
                   start, end, query, emails>>
    /\ UNCHANGED <<credVars, dlVars, mainVars>>

\* lines 203-210
FetchFilter ==
    /\ pc = "fetch_filter"
    /\ LET a == FilterArgs(start, end, email_from)
       IN  /\ error' = a.err
           /\ query' = a.q
           /\ emails' = IF a.err = NoError
                        THEN <<Answer(folders, a.q[1])>> ELSE <<>>
    /\ pc' = "fetch_done"
    /\ UNCHANGED <<from_date, search_subfolders, email_from, clock, start,
                   end, folders>>
    /\ UNCHANGED <<credVars, dlVars, mainVars>>

IdleFetch ==
    /\ from_date = None /\ search_subfolders = FALSE /\ email_from = <<>>
    /\ clock = Naive(0) /\ start = Unbound /\ end = Unbound
    /\ folders = "none" /\ query = <<>> /\ emails = <<>>

InitFetch ==
    /\ pc = "fetch_start"
    /\ error = NoError
    /\ from_date \in {None} \cup { Naive(t) : t \in Instants }
    /\ search_subfolders \in BOOLEAN
    /\ email_from \in Senders
    /\ clock \in { Naive(t) : t \in Instants }
    /\ start = Unbound /\ end = Unbound
    /\ folders = "none" /\ query = <<>> /\ emails = <<>>

NextFetch == FetchBindRange \/ FetchFolders \/ FetchFilter

-----------------------------------------------------------------------------
(* app.py, lines 28-50: the loop over the fetched messages *)

\* app.py 40-41: the arguments of every call
AppExt == <<".", "p", "d", "f">>
AppDst == DstFolder

\* Faulty variant: only the destination error is caught
Catches_OnlyFolderNotFound(exc) == exc = "FolderNotFoundError"

\* app.py 43: `except Exception` catches every exception download_attachments
\* raises (FolderNotFoundError, FileNotFoundError and OSError derive from it)
Catches(exc) == exc \in {"FolderNotFoundError", "FileNotFoundError", "OSError"}

\* lines 28-32
MainCount ==
    /\ pc = "main_start"
    /\ pc' = IF Len(messages) = 0 THEN "main_exit" ELSE "main_loop"
    /\ UNCHANGED <<error, mainVars, credVars, fetchVars, dlVars>>

\* lines 34-48, one message
MainMessage ==
    /\ pc = "main_loop"
    /\ mi < Len(messages)
    /\ LET r == DownloadAttachments(fs, dir_exists, messages[mi + 1], AppDst,
                                    AppExt, FALSE)
       IN  /\ fs' = r.fs
           /\ calls' = Append(calls, mi + 1)
           /\ outcomes' = Append(outcomes, r.err)
           /\ IF r.err = NoError \/ Catches(r.err)
              THEN pc' = "main_loop" /\ UNCHANGED error
              ELSE pc' = "main_crashed" /\ error' = r.err
    /\ mi' = mi + 1
    /\ UNCHANGED <<messages, attachments, dst_folder, ext, overwrite,
                   dir_exists, fs0, ai, file_paths, log>>
    /\ UNCHANGED <<credVars, fetchVars>>

\* line 50
MainExit ==
    /\ pc = "main_loop"
    /\ mi = Len(messages)
    /\ pc' = "main_exit"
    /\ UNCHANGED <<error, mainVars, credVars, fetchVars, dlVars>>

\* A fetched message is its attachment list: none, or one of each name
MsgKinds ==
    { <<>> } \cup { <<[name |-> n, content |-> "b1"]>> : n \in AttNames }

InitMain ==
    /\ pc = "main_start"
    /\ error = NoError
    /\ messages \in SeqsUpTo(MsgKinds, MaxMsgs)
    /\ mi = 0 /\ calls = <<>> /\ outcomes = <<>>
    /\ attachments = <<>> /\ dst_folder = DstFolder /\ ext = AppExt
    /\ overwrite = FALSE
    /\ dir_exists \in BOOLEAN
    /\ fs \in FileSystems(dir_exists)
    /\ fs0 = fs
    /\ ai = 0 /\ file_paths = <<>> /\ log = <<>>

IdleMain == messages = <<>> /\ mi = 0 /\ calls = <<>> /\ outcomes = <<>>

NextMain == MainCount \/ MainMessage \/ MainExit

-----------------------------------------------------------------------------
(* Specifications, one per routine *)

CredInit  == InitCred /\ IdleFetch /\ IdleDl /\ IdleMain
FetchInit == InitFetch /\ IdleCred /\ IdleDl /\ IdleMain
DlInit    == InitDl /\ IdleCred /\ IdleFetch /\ IdleMain
MainInit  == InitMain /\ IdleCred /\ IdleFetch

SpecCred  == CredInit /\ [][NextCred]_vars
SpecFetch == FetchInit /\ [][NextFetch]_vars
SpecDl    == DlInit /\ [][NextDl]_vars

\* The entry point is a sequential program: it always takes its next step.
SpecMain  == MainInit /\ [][NextMain]_vars /\ WF_vars(NextMain)

-----------------------------------------------------------------------------
(* Properties of the credential loader *)

\* The text before and after the first colon of a line that has one
RECURSIVE FirstColon(_, _)
FirstColon(s, i) == IF s[i] = ":" THEN i ELSE FirstColon(s, i + 1)

BeforeFirstColon(s) == SubSeq(s, 1, FirstColon(s, 1) - 1)
AfterFirstColon(s)  == SubSeq(s, FirstColon(s, 1) + 1, Len(s))

LabelOf(line) == Strip(BeforeFirstColon(line))
ValueOf(line) == Strip(AfterFirstColon(line))

Labels == {ClientIdLabel, ClientSecretLabel, TenantIdLabel}

FieldOf(label) ==
    IF label = ClientIdLabel THEN "client_id"
    ELSE IF label = ClientSecretLabel THEN "client_secret"
    ELSE "tenant_id"

Unrecognized(line) == HasColon(line) /\ LabelOf(line) \notin Labels

RemoveAt(q, i) == SubSeq(q, 1, i - 1) \o SubSeq(q, i + 1, Len(q))

\* C1: a line with an unrecognized label is silently ignored: wherever it
\* stands in the file, the call ends as it ends for the file without that
\* line, with the same error (or none) and the same credentials.
C1_UnrecognizedIgnored ==
    (pc = "cred_done" /\ cred_file.exists) =>
        \A i \in 1..Len(cred_file.lines) :
            Unrecognized(cred_file.lines[i]) =>
                LET r == GetCredentials(acc_name,
                             [exists |-> TRUE,
                              lines |-> RemoveAt(cred_file.lines, i)])
                IN  error = r.err /\ creds = r.creds

\* C2: each line with a colon is split on the first colon only: after a line
\* with a recognized label is scanned, its field holds the whole trimmed text
\* after the first colon; a line without a colon changes nothing.
C2_SplitOnFirstColon ==
    [][ (pc = "cred_scan" /\ li < Len(lines)) =>
          LET line == lines[li + 1]
          IN  IF ~HasColon(line)
              THEN params' = params /\ error' = NoError
              ELSE LabelOf(line) \in Labels =>
                     /\ error' = NoError
                     /\ params'[FieldOf(LabelOf(line))] = ValueOf(line) ]_vars

\* C5: a returned record is never partially filled: client_id, client_secret,
\* tenant_id and the identity are all non-empty strings.
C5_NoPartialRecord ==
    creds # <<>> =>
        \A f \in {"client_id", "client_secret", "tenant_id", "identity"} :
            creds[1][f] # None /\ creds[1][f] # <<>>

\* The required fields no line of the file gives a label for, in checking order
HasLabel(ls, label) ==
    \E i \in 1..Len(ls) : HasColon(ls[i]) /\ LabelOf(ls[i]) = label

FirstMissing(ls) ==
    IF ~HasLabel(ls, ClientIdLabel) THEN "client_id"
    ELSE IF ~HasLabel(ls, ClientSecretLabel) THEN "client_secret"
    ELSE IF ~HasLabel(ls, TenantIdLabel) THEN "tenant_id"
    ELSE "none"

MissingError(field) ==
    IF field = "client_id" THEN "ValueError: client_id"
    ELSE IF field = "client_secret" THEN "ValueError: client_secret"
    ELSE "ValueError: tenant_id"

\* C6: for a file that lacks a required label, the whole file is scanned and
\* the call fails with the missing-parameter error naming the first unset
\* field in the order client_id, client_secret, tenant_id; nothing is returned.
C6_FirstMissingReported ==
    (pc = "cred_done" /\ cred_file.exists
        /\ FirstMissing(cred_file.lines) # "none") =>
        /\ li = Len(cred_file.lines)
        /\ error = MissingError(FirstMissing(cred_file.lines))
        /\ creds = <<>>

-----------------------------------------------------------------------------
(* Properties of download_attachments *)

\* C3: the extension filter ignores letter case in the name and in ext: an
\* attachment passes exactly when its lower-cased name ends with the
\* lower-cased ext; one that does not match is skipped without a write; the
\* result grows only at its end, so the paths keep the attachments' order.
C3_FilterCaseInsensitive ==
    [][ (pc = "dl_loop" /\ ai < Len(attachments) /\ ext # None) =>
          LET att     == attachments[ai + 1]
              matches == EndsWith(Lower(att.name), Lower(ext))
          IN  /\ matches <=> (log'[ai + 1].event # "filtered")
              /\ ~matches => (fs' = fs /\ file_paths' = file_paths
                              /\ error' = NoError)
              /\ \/ file_paths' = file_paths
                 \/ file_paths' = Append(file_paths,
                                         Join(dst_folder, att.name)) ]_vars

C7_FailFastOnMissingFolder ==
    (~dir_exists /\ pc # "dl_start") =>
        /\ pc = "dl_done"
        /\ error = "FolderNotFoundError"
        /\ ai = 0 /\ log = <<>> /\ file_paths = <<>>
        /\ fs = fs0

\* C7 witness: the call has ended on a missing folder with attachments to save
C7_Witness ==
    /\ ~dir_exists /\ pc = "dl_done" /\ Len(attachments) = MaxAtts
    /\ error = "FolderNotFoundError"

Count(q, x) == Cardinality({ i \in 1..Len(q) : q[i] = x })

Writes == Cardinality({ i \in 1..Len(log) : log[i].event = "written" })

SetMin(S) == CHOOSE x \in S : \A y \in S : x <= y
SetMax(S) == CHOOSE x \in S : \A y \in S : x >= y

\* C10: several attachments of one message with the same name, all passing
\* the filter, nothing at the target path beforehand. With overwrite = FALSE
\* only the first is written: the file holds its bytes, the path is in the
\* result once, the later ones are skipped. With overwrite = TRUE each is
\* written in turn: the file holds the last one's bytes and the path is in
\* the result once per attachment. The result is as long as the number of
\* writes performed.
C10_SameNameAttachments ==
    /\ Len(file_paths) = Writes
    /\ (pc = "dl_done" /\ error = NoError) =>
         \A n \in AttNames :
            LET path == Join(dst_folder, n)
                idx  == { i \in 1..Len(attachments) :
                            /\ attachments[i].name = n
                            /\ PassesFilter(path, ext) }
            IN  (Cardinality(idx) >= 2 /\ fs0[path] = Absent) =>
                  IF ~overwrite
                  THEN /\ fs[path] = File(attachments[SetMin(idx)].content)
                       /\ Count(file_paths, path) = 1
                       /\ log[SetMin(idx)].event = "written"
                       /\ \A i \in idx \ {SetMin(idx)} :
                              log[i].event = "skipped"
                  ELSE /\ fs[path] = File(attachments[SetMax(idx)].content)
                       /\ Count(file_paths, path) = Cardinality(idx)
                       /\ \A i \in idx : log[i].event = "written"

\* C10 witness: with overwrite = TRUE two attachments of the same name and
\* different bytes were both written to a path that held nothing before
C10_Witness ==
    /\ pc = "dl_done" /\ error = NoError /\ overwrite
    /\ Len(attachments) >= 2
    /\ attachments[1].name = attachments[2].name
    /\ attachments[1].content # attachments[2].content
    /\ fs0[Join(dst_folder, attachments[1].name)] = Absent
    /\ log[1].event = "written" /\ log[2].event = "written"
    /\ fs[Join(dst_folder, attachments[1].name)] = File(attachments[2].content)

-----------------------------------------------------------------------------
(* Properties of fetch_messages *)

\* C9: without from_date the call ends in an error, whatever
\* search_subfolders is: no filter query is ever issued and no message list
\* is returned. With from_date the one query issued has the window
\* (from_date, now at call time) and the given sender.
C9_StartDateRequired ==
    /\ from_date = None =>
         /\ query = <<>> /\ emails = <<>>
         /\ pc = "fetch_done" => error # NoError
    /\ (from_date # None /\ pc = "fetch_done") =>
         /\ error = NoError
         /\ Len(query) = 1 /\ Len(emails) = 1
         /\ query[1].range[1][1] = from_date[1]
         /\ query[1].range[2][1] = clock[1]
         /\ query[1].sender = email_from

\* C9 witness: a call without from_date, searching subfolders, has ended
C9_Witness ==
    /\ from_date = None /\ search_subfolders /\ pc = "fetch_done"
    /\ error = "UnboundLocalError"

-----------------------------------------------------------------------------
(* Properties of the entry-point loop *)

\* C8: whatever messages fail, download_attachments is invoked once for each
\* message, in order, no exception leaves the loop, and the run reaches its
\* normal exit.
C8_BatchTolerance ==
    /\ [](calls = [i \in 1..mi |-> i])
    /\ [](pc # "main_crashed")
    /\ [](pc = "main_exit" => mi = Len(messages))
    /\ <>(pc = "main_exit")

\* C8 witness: the run has exited after a first message that failed and a
\* second one that was saved
C8_Witness ==
    /\ pc = "main_exit" /\ Len(messages) = 2
    /\ outcomes[1] # NoError /\ outcomes[2] = NoError
    /\ calls = <<1, 2>>
    /\ \E p \in Paths : fs0[p] = Absent /\ fs[p].kind = "file"

====
